---- MODULE Spec2Model ----
(***************************************************************************)
(* FaturasContinente (streamlit_app.py): receipt text resolution, the      *)
(* upload loop and the record listing.                                     *)
(*                                                                         *)
(* A text is a sequence of characters, each character a one-element        *)
(* string; "EURO" stands for the euro sign U+20AC and "\n" for a newline.  *)
(* An optional value is a tuple: None is <<>>, a date is <<y, m, d>>, a    *)
(* total is <<cents>> (the float the code computes, counted in cents).     *)
(***************************************************************************)
EXTENDS Integers, Sequences, FiniteSets, TLC

VARIABLES
    USE_GSHEETS,   \* storage mode chosen at start-up (line 83..89)
    padsYear,      \* whether the platform's strftime pads %Y to four digits
    db,            \* rows of the store as the app's connection sees them
    uploaded_files,\* the batch in the uploader widget
    idx,           \* position of the `for up in uploaded_files` loop
    added,         \* loop counter `added`
    errors,        \* loop list `errors`
    pc,            \* position of the script run
    listing,       \* the frame `df` last produced by the display section
    rowsBefore,    \* Len(db) when the current batch started
    text,          \* local `text`
    date,          \* local `date`
    total          \* local `total`

vars == <<USE_GSHEETS, padsYear, db, uploaded_files, idx, added, errors, pc,
          listing, rowsBefore, text, date, total>>

None == <<>>

(***************************************************************************)
(* Characters.                                                             *)
(***************************************************************************)
Digit == {"0", "1", "2", "3", "4", "5", "6", "7", "8", "9"}

DigitVal(c) ==
    CASE c = "0" -> 0 [] c = "1" -> 1 [] c = "2" -> 2 [] c = "3" -> 3
      [] c = "4" -> 4 [] c = "5" -> 5 [] c = "6" -> 6 [] c = "7" -> 7
      [] c = "8" -> 8 [] c = "9" -> 9

DigitChar(n) ==
    CASE n = 0 -> "0" [] n = 1 -> "1" [] n = 2 -> "2" [] n = 3 -> "3"
      [] n = 4 -> "4" [] n = 5 -> "5" [] n = 6 -> "6" [] n = 7 -> "7"
      [] n = 8 -> "8" [] n = 9 -> "9"

\* \s of the regular expressions, over the characters the texts use.
Whitespace == {" ", "\n"}

\* re.IGNORECASE: characters are compared after case folding.
Lower(c) ==
    CASE c = "T" -> "t" [] c = "O" -> "o" [] c = "A" -> "a" [] c = "L" -> "l"
      [] c = "P" -> "p" [] c = "G" -> "g" [] c = "R" -> "r" [] c = "V" -> "v"
      [] OTHER -> c

\* Value of the decimal digits s[from..to] (int() of a digit string).
RECURSIVE DigitsVal(_, _, _)
DigitsVal(s, from, to) ==
    IF to < from THEN 0
    ELSE 10 * DigitsVal(s, from, to - 1) + DigitVal(s[to])

\* str.replace(old, new) for a single character `old` and a string `new`.
RECURSIVE Replace(_, _, _)
Replace(s, old, new) ==
    IF s = <<>> THEN <<>>
    ELSE (IF Head(s) = old THEN new ELSE <<Head(s)>>) \o Replace(Tail(s), old, new)

(***************************************************************************)
(* Date resolution, lines 31..37.                                          *)
(***************************************************************************)
\* The pattern \d{2}[/-]\d{2}[/-]\d{4} matches at position i.
DateShapedAt(s, i) ==
    /\ i >= 1
    /\ i + 9 <= Len(s)
    /\ \A k \in {0, 1, 3, 4, 6, 7, 8, 9} : s[i + k] \in Digit
    /\ \A k \in {2, 5} : s[i + k] \in {"/", "-"}

\* Position candidates re.search reports for the date pattern.
DateMatches(s) == {i \in 1..Len(s) : DateShapedAt(s, i)}

MinOf(S) == CHOOSE x \in S : \A y \in S : x <= y
MaxOf(S) == CHOOSE x \in S : \A y \in S : x >= y

\* re.search: the leftmost match, 0 when there is none.
DateSearchLast(s) == IF DateMatches(s) = {} THEN 0 ELSE MaxOf(DateMatches(s))
DateSearch(s) == IF DateMatches(s) = {} THEN 0 ELSE MinOf(DateMatches(s))

IsLeap(y) == y % 4 = 0 /\ (y % 100 # 0 \/ y % 400 = 0)

DaysInMonth(y, m) ==
    IF m = 2 THEN (IF IsLeap(y) THEN 29 ELSE 28)
    ELSE IF m \in {4, 6, 9, 11} THEN 30 ELSE 31

\* datetime.strptime(s, "%d/%m/%Y").date() on ten characters dd/mm/yyyy;
\* None stands for the ValueError the caller catches.
Strptime(s) ==
    LET d == DigitsVal(s, 1, 2)
        m == DigitsVal(s, 4, 5)
        y == DigitsVal(s, 7, 10)
    IN  IF /\ s[3] = "/" /\ s[6] = "/"
           /\ y >= 1
           /\ m >= 1 /\ m <= 12
           /\ d >= 1 /\ d <= DaysInMonth(y, m)
        THEN <<y, m, d>>
        ELSE None

\* Lines 31..37 as if every match were tried until one parses.
ResolveDateAnyValid(s) ==
    LET parsed == {i \in DateMatches(s) :
                      Strptime(Replace(SubSeq(s, i, i + 9), "-", <<"/">>)) # None}
    IN  IF parsed = {} THEN None
        ELSE Strptime(Replace(SubSeq(s, MinOf(parsed), MinOf(parsed) + 9), "-", <<"/">>))

\* Lines 31..37: the first match, parsed, or None.
ResolveDate(s) ==
    LET i == DateSearch(s)
    IN  IF i = 0 THEN None
        ELSE Strptime(Replace(SubSeq(s, i, i + 9), "-", <<"/">>))

(***************************************************************************)
(* Total resolution, lines 41..69.                                         *)
(***************************************************************************)
\* First position >= i that holds no whitespace (greedy \s*).
RECURSIVE SkipWs(_, _)
SkipWs(s, i) ==
    IF i <= Len(s) /\ s[i] \in Whitespace THEN SkipWs(s, i + 1) ELSE i

\* Last position of the run of digits that starts at i (greedy [0-9]+).
RECURSIVE RunEnd(_, _)
RunEnd(s, i) ==
    IF i + 1 <= Len(s) /\ s[i + 1] \in Digit THEN RunEnd(s, i + 1) ELSE i

\* [0-9]+[.,][0-9]{2} matched from position i: the position of its last
\* character, 0 when it does not match there.
AmountEnd(s, i) ==
    IF i >= 1 /\ i <= Len(s) /\ s[i] \in Digit
    THEN LET j == RunEnd(s, i) + 1
         IN  IF /\ j + 2 <= Len(s)
                /\ s[j] \in {".", ","}
                /\ s[j + 1] \in Digit
                /\ s[j + 2] \in Digit
             THEN j + 2
             ELSE 0
    ELSE 0

\* float() of a string of digits with at most one "." followed by two
\* digits, in cents.
Float(v) ==
    LET points == {k \in 1..Len(v) : v[k] = "."}
    IN  IF points = {} THEN 100 * DigitsVal(v, 1, Len(v))
        ELSE LET k == MinOf(points)
             IN  100 * DigitsVal(v, 1, k - 1) + DigitsVal(v, k + 1, Len(v))

\* float(val.replace('.', '').replace(',', '.')), lines 57 and 67.
ParseAmount(val) == Float(Replace(Replace(val, ".", <<>>), ",", <<".">>))

L_TotalAPagar == <<"T", "o", "t", "a", "l", " ", "a", " ", "p", "a", "g", "a", "r">>
L_TOTAL == <<"T", "O", "T", "A", "L">>
L_TOTALAPAGAR == <<"T", "O", "T", "A", "L", " ", "A", " ", "P", "A", "G", "A", "R">>
L_ValorTotal == <<"V", "a", "l", "o", "r", " ", "t", "o", "t", "a", "l">>
L_Total == <<"T", "o", "t", "a", "l">>

\* The list `patterns`: a label, optional separator, the amount, and for
\* the second pattern a trailing euro sign.
patterns == <<
    [label |-> L_TotalAPagar, euro |-> FALSE],
    [label |-> L_TOTAL,       euro |-> TRUE],
    [label |-> L_TOTAL,       euro |-> FALSE],
    [label |-> L_TOTALAPAGAR, euro |-> FALSE],
    [label |-> L_ValorTotal,  euro |-> FALSE],
    [label |-> L_Total,       euro |-> FALSE] >>

LabelAt(label, s, i) ==
    /\ i + Len(label) - 1 <= Len(s)
    /\ \A k \in 1..Len(label) : Lower(s[i + k - 1]) = Lower(label[k])

\* The pattern p matched from position i: <<first, last>> positions of its
\* amount group, None when it does not match there.
PatternAt(p, s, i) ==
    IF ~LabelAt(p.label, s, i) THEN None
    ELSE LET k1 == SkipWs(s, i + Len(p.label))
             k2 == IF k1 <= Len(s) /\ s[k1] \in {":", "-"} THEN k1 + 1 ELSE k1
             k3 == SkipWs(s, k2)
             e  == AmountEnd(s, k3)
         IN  IF e = 0 THEN None
             ELSE IF ~p.euro THEN <<k3, e>>
             ELSE LET k4 == SkipWs(s, e + 1)
                  IN  IF k4 <= Len(s) /\ s[k4] = "EURO" THEN <<k3, e>> ELSE None

PatternMatches(p, s) == {i \in 1..Len(s) : PatternAt(p, s, i) # None}

\* re.search(p, text, flags=re.IGNORECASE) followed by m.groups()[-1]: the
\* amount of the leftmost match, None when the pattern matches nowhere.
PatternSearch(p, s) ==
    IF PatternMatches(p, s) = {} THEN None
    ELSE LET g == PatternAt(p, s, MinOf(PatternMatches(p, s)))
         IN  <<SubSeq(s, g[1], g[2])>>

\* The loop of lines 51..60 from pattern k on: the first pattern that
\* matches sets the total and breaks.
RECURSIVE LabeledFrom(_, _)
LabeledFrom(s, k) ==
    IF k > Len(patterns) THEN None
    ELSE LET m == PatternSearch(patterns[k], s)
         IN  IF m # None THEN <<ParseAmount(m[1])>> ELSE LabeledFrom(s, k + 1)

\* The same loop without the break: the last matching pattern wins.
RECURSIVE LabeledNoBreak(_, _, _)
LabeledNoBreak(s, k, acc) ==
    IF k > Len(patterns) THEN acc
    ELSE LET m == PatternSearch(patterns[k], s)
         IN  LabeledNoBreak(s, k + 1, IF m # None THEN <<ParseAmount(m[1])>> ELSE acc)

LabeledTotalNoBreak(s) == LabeledNoBreak(s, 1, None)
LabeledTotal(s) == LabeledFrom(s, 1)

\* re.findall(r"[0-9]+[.,][0-9]{2}", text): the non-overlapping matches,
\* scanning from position `from` left to right.
RECURSIVE FindAllFrom(_, _)
FindAllFrom(s, from) ==
    LET starts == {i \in from..Len(s) : AmountEnd(s, i) # 0}
    IN  IF starts = {} THEN <<>>
        ELSE LET i == MinOf(starts)
                 e == AmountEnd(s, i)
             IN  <<SubSeq(s, i, e)>> \o FindAllFrom(s, e + 1)

FindAll(s) == FindAllFrom(s, 1)

\* Lines 63..69 with all_nums[0] in place of all_nums[-1].
FallbackTotalFirst(s) ==
    LET all_nums == FindAll(s)
    IN  IF all_nums = <<>> THEN None ELSE <<ParseAmount(all_nums[1])>>

\* Lines 63..69, entered when total is None.
FallbackTotal(s) ==
    LET all_nums == FindAll(s)
    IN  IF all_nums = <<>> THEN None ELSE <<ParseAmount(all_nums[Len(all_nums)])>>

ResolveTotal(s) ==
    LET labeled == LabeledTotal(s)
    IN  IF labeled # None THEN labeled ELSE FallbackTotal(s)

\* extract_date_and_total(text) -> (date, total)
extract_date_and_total(s) == <<ResolveDate(s), ResolveTotal(s)>>

(***************************************************************************)
(* Text extraction, lines 23..26.                                          *)
(***************************************************************************)
\* "\n".join(texts)
RECURSIVE Join(_)
Join(texts) ==
    IF texts = <<>> THEN <<>>
    ELSE IF Len(texts) = 1 THEN texts[1]
    ELSE texts[1] \o <<"\n">> \o Join(Tail(texts))

\* A raw upload is [readable, pages]; a page without a text layer is None
\* (extract_text() returns None) and contributes "".  An unreadable upload
\* makes pdfplumber.open raise, which the caller sees as ReadFails.
extract_text_from_pdf_bytes(raw) ==
    Join([k \in 1..Len(raw.pages) |->
            IF raw.pages[k] = None THEN <<>> ELSE raw.pages[k]])

(***************************************************************************)
(* Storage, lines 126..135 and 157..160.                                   *)
(***************************************************************************)
RECURSIVE IntToChars(_)
IntToChars(n) ==
    IF n < 10 THEN <<DigitChar(n)>>
    ELSE IntToChars(n \div 10) \o <<DigitChar(n % 10)>>

RECURSIVE ZeroPad(_, _)
ZeroPad(chars, width) ==
    IF Len(chars) >= width THEN chars ELSE ZeroPad(<<"0">> \o chars, width)

\* date.strftime("%Y-%m-%d"), line 157.  %d and %m are zero-padded; %Y is
\* handed to the platform's strftime, which pads it to four digits on some
\* C libraries and prints the bare number on others (glibc).
Strftime(d) ==
    (IF padsYear THEN ZeroPad(IntToChars(d[1]), 4) ELSE IntToChars(d[1]))
        \o <<"-">> \o ZeroPad(IntToChars(d[2]), 2)
        \o <<"-">> \o ZeroPad(IntToChars(d[3]), 2)

\* f"{total:.2f}", line 160.
FormatTotal(t) ==
    IntToChars(t[1] \div 100) \o <<".">> \o ZeroPad(IntToChars(t[1] % 100), 2)

\* Byte value of the characters of a stored date (SQLite compares TEXT
\* with memcmp under the BINARY collation).
CharCode(c) == IF c = "-" THEN 45 ELSE 48 + DigitVal(c)

RECURSIVE TextLess(_, _)
TextLess(a, b) ==
    IF b = <<>> THEN FALSE
    ELSE IF a = <<>> THEN TRUE
    ELSE IF CharCode(Head(a)) # CharCode(Head(b))
         THEN CharCode(Head(a)) < CharCode(Head(b))
    ELSE TextLess(Tail(a), Tail(b))

\* Insert a row into rows sorted by the date column, after its equals.
RECURSIVE InsertByDate(_, _)
InsertByDate(row, rows) ==
    IF rows = <<>> THEN <<row>>
    ELSE IF TextLess(row.date, Head(rows).date) THEN <<row>> \o rows
    ELSE <<Head(rows)>> \o InsertByDate(row, Tail(rows))

\* SELECT ... FROM receipts ORDER BY date (ties in insertion order).
RECURSIVE OrderByDate(_)
OrderByDate(rows) ==
    IF rows = <<>> THEN <<>>
    ELSE InsertByDate(rows[Len(rows)], OrderByDate(SubSeq(rows, 1, Len(rows) - 1)))

\* pd.to_datetime(...).dt.date on a stored date: year, month and day are
\* the fields between the "-" separators.
ToDate(chars) ==
    LET dashes == {k \in 1..Len(chars) : chars[k] = "-"}
        p1 == MinOf(dashes)
        p2 == MaxOf(dashes)
    IN  <<DigitsVal(chars, 1, p1 - 1), DigitsVal(chars, p1 + 1, p2 - 1),
          DigitsVal(chars, p2 + 1, Len(chars))>>

\* sqlite_fetch_all(), lines 131..135.
sqlite_fetch_all ==
    LET rows == OrderByDate(db)
    IN  [k \in 1..Len(rows) |->
            [date |-> ToDate(rows[k].date), total |-> rows[k].total,
             filename |-> rows[k].filename]]

\* Lines 184..191: the sheet's records in sheet order, date and total
\* converted (the sheet is taken to carry the header row line 189 expects).
gs_fetch_all ==
    [k \in 1..Len(db) |->
        [date |-> ToDate(db[k].date), total |-> <<Float(db[k].total)>>,
         filename |-> db[k].filename]]

(***************************************************************************)
(* Texts: the fragments the bounded inputs are assembled from.             *)
(***************************************************************************)
T_15_03_2024 == <<"1", "5", "/", "0", "3", "/", "2", "0", "2", "4">>
T_29_02_2024 == <<"2", "9", "-", "0", "2", "-", "2", "0", "2", "4">>
T_32_13_2024 == <<"3", "2", "/", "1", "3", "/", "2", "0", "2", "4">>
T_29_02_2023 == <<"2", "9", "/", "0", "2", "/", "2", "0", "2", "3">>
T_01_02_20 == <<"0", "1", "/", "0", "2", "/", "2", "0">>
T_31_12_0999 == <<"3", "1", "-", "1", "2", "-", "0", "9", "9", "9">>
T_7 == <<"7">>
T_Space == <<" ">>
T_Slash == <<"/">>
T_TotalAPagar == <<"T", "o", "t", "a", "l", " ", "a", " ", "p", "a", "g", "a", "r", " ">>
T_TOTALAPAGAR == <<"T", "O", "T", "A", "L", " ", "A", " ", "P", "A", "G", "A", "R", ":", " ">>
T_TOTAL == <<"T", "O", "T", "A", "L", " ">>
T_ValorTotal == <<"V", "a", "l", "o", "r", " ", "t", "o", "t", "a", "l", " ", "-", " ">>
T_12_34 == <<"1", "2", ",", "3", "4">>
T_99_99 == <<" ", "9", "9", ",", "9", "9">>
T_1_234_56 == <<"1", ".", "2", "3", "4", ",", "5", "6">>
T_Euro == <<"EURO">>
T_45 == <<",", "4", "5">>
T_5_00 == <<"5", ".", "0", "0">>
T_TOTAL_5_00 == T_TOTAL \o T_5_00 \o T_Space
T_3_50_Euro == <<" ", "3", ",", "5", "0", "EURO">>
T_Newline == <<"\n">>

DateFrags ==
    {T_15_03_2024, T_29_02_2024, T_32_13_2024, T_29_02_2023, T_01_02_20,
     T_31_12_0999, T_7, T_Space, T_Slash}

AmountFrags ==
    {T_TotalAPagar, T_TOTALAPAGAR, T_TOTAL, T_ValorTotal, T_12_34, T_99_99,
     T_1_234_56, T_Euro, T_Newline, T_45, T_TOTAL_5_00, T_3_50_Euro}

MaxFrags == 3

RECURSIVE Concat(_)
Concat(fs) == IF fs = <<>> THEN <<>> ELSE Head(fs) \o Concat(Tail(fs))

\* The texts made of 1..MaxFrags fragments of F.
TextsOver(F) == {Concat(fs) : fs \in UNION {[1..k -> F] : k \in 1..MaxFrags}}

(***************************************************************************)
(* The uploads a batch is drawn from: name and raw bytes.                  *)
(***************************************************************************)
Uploads == {
    [name |-> "a.pdf",
     raw |-> [readable |-> TRUE,
              pages |-> <<T_15_03_2024, T_TotalAPagar \o T_12_34 \o T_99_99>>]],
    [name |-> "b.pdf",
     raw |-> [readable |-> TRUE,
              pages |-> <<T_31_12_0999 \o T_Space \o T_TOTAL \o T_5_00 \o T_Euro>>]],
    [name |-> "c.pdf",
     raw |-> [readable |-> TRUE, pages |-> <<T_TOTAL \o T_12_34>>]],
    [name |-> "d.pdf",
     raw |-> [readable |-> TRUE, pages |-> <<T_15_03_2024, None>>]],
    [name |-> "e.pdf",
     raw |-> [readable |-> FALSE, pages |-> <<>>]] }

MaxBatch == 2
MaxRows == 3

Batches == UNION {[1..k -> Uploads] : k \in 1..MaxBatch}

(***************************************************************************)
(* The script run: upload loop (lines 144..174) and display (179..204).    *)
(***************************************************************************)
Init ==
    /\ USE_GSHEETS \in BOOLEAN
    /\ padsYear \in BOOLEAN
    /\ db = <<>>
    /\ uploaded_files = <<>>
    /\ idx = 1
    /\ added = 0
    /\ errors = <<>>
    /\ pc = "idle"
    /\ listing = <<>>
    /\ rowsBefore = 0
    /\ text = <<>>
    /\ date = None
    /\ total = None

\* A script run that finds files in the uploader, lines 144..146.
Upload(batch) ==
    /\ pc \in {"idle", "aborted"}
    /\ Len(db) + Len(batch) <= MaxRows
    /\ uploaded_files' = batch
    /\ idx' = 1
    /\ added' = 0
    /\ errors' = <<>>
    /\ rowsBefore' = Len(db)
    /\ pc' = "loop"
    /\ UNCHANGED <<USE_GSHEETS, padsYear, db, listing, text, date, total>>

InLoop == pc = "loop" /\ idx <= Len(uploaded_files)

up == uploaded_files[idx]

\* Line 152 with the test of `total` left out.
UnresolvedDateOnly(d, t) == d = None

\* Line 152: `date is None or total is None`.
Unresolved(d, t) == d = None \/ t = None

\* Lines 148..150 for a readable upload: the locals text, date, total.
Extracted ==
    /\ up.raw.readable
    /\ text' = extract_text_from_pdf_bytes(up.raw)
    /\ date' = extract_date_and_total(text')[1]
    /\ total' = extract_date_and_total(text')[2]

\* Line 149 raises: nothing in the loop catches it, the script run ends
\* with the exception and neither line 171 nor the display section runs.
ReadFails ==
    /\ InLoop
    /\ ~up.raw.readable
    /\ pc' = "aborted"
    /\ UNCHANGED <<USE_GSHEETS, padsYear, db, uploaded_files, idx, added, errors,
                   listing, rowsBefore, text, date, total>>

\* Lines 152..154.
SkipUnresolved ==
    /\ InLoop
    /\ Extracted
    /\ Unresolved(date', total')
    /\ errors' = Append(errors, <<up.name, date', total'>>)
    /\ idx' = idx + 1
    /\ UNCHANGED <<USE_GSHEETS, padsYear, db, uploaded_files, added, pc, listing,
                   rowsBefore>>

\* Lines 165..167: INSERT and commit both succeed.
SqliteInsertOk ==
    /\ InLoop
    /\ Extracted
    /\ ~Unresolved(date', total')
    /\ ~USE_GSHEETS
    /\ db' = Append(db, [date |-> Strftime(date'), total |-> total',
                         filename |-> up.name])
    /\ added' = added + 1
    /\ idx' = idx + 1
    /\ UNCHANGED <<USE_GSHEETS, padsYear, uploaded_files, errors, pc, listing,
                   rowsBefore>>

\* Lines 165..169: cur.execute (line 127) raises, no row is written.
SqliteExecuteFails ==
    /\ InLoop
    /\ Extracted
    /\ ~Unresolved(date', total')
    /\ ~USE_GSHEETS
    /\ errors' = Append(errors, <<up.name, "error">>)
    /\ idx' = idx + 1
    /\ UNCHANGED <<USE_GSHEETS, padsYear, db, uploaded_files, added, pc, listing,
                   rowsBefore>>

\* Lines 165..169: cur.execute succeeds and conn.commit (line 129) raises
\* (database is locked).  Nothing rolls the INSERT back: the row stays in
\* the connection's open transaction, the connection's own SELECT returns
\* it and the next successful commit makes it durable.
SqliteCommitFails ==
    /\ InLoop
    /\ Extracted
    /\ ~Unresolved(date', total')
    /\ ~USE_GSHEETS
    /\ db' = Append(db, [date |-> Strftime(date'), total |-> total',
                         filename |-> up.name])
    /\ errors' = Append(errors, <<up.name, "error">>)
    /\ idx' = idx + 1
    /\ UNCHANGED <<USE_GSHEETS, padsYear, uploaded_files, added, pc, listing,
                   rowsBefore>>

\* Lines 159..161: the row is formatted and appended to the sheet.
GsAppendOk ==
    /\ InLoop
    /\ Extracted
    /\ ~Unresolved(date', total')
    /\ USE_GSHEETS
    /\ total' # None
    /\ db' = Append(db, [date |-> Strftime(date'), total |-> FormatTotal(total'),
                         filename |-> up.name])
    /\ added' = added + 1
    /\ idx' = idx + 1
    /\ UNCHANGED <<USE_GSHEETS, padsYear, uploaded_files, errors, pc, listing,
                   rowsBefore>>

\* Lines 159..163: formatting, gs_connect or append_row raises.
GsAppendFails ==
    /\ InLoop
    /\ Extracted
    /\ ~Unresolved(date', total')
    /\ USE_GSHEETS
    /\ errors' = Append(errors, <<up.name, "error">>)
    /\ idx' = idx + 1
    /\ UNCHANGED <<USE_GSHEETS, padsYear, db, uploaded_files, added, pc, listing,
                   rowsBefore>>

\* Lines 171..174, after the loop: the count and the collected errors.
Report ==
    /\ pc = "loop"
    /\ idx > Len(uploaded_files)
    /\ pc' = "report"
    /\ UNCHANGED <<USE_GSHEETS, padsYear, db, uploaded_files, idx, added, errors,
                   listing, rowsBefore, text, date, total>>

\* Lines 181..204: the frame df.
Display ==
    /\ pc = "report"
    /\ listing' = IF USE_GSHEETS THEN gs_fetch_all ELSE sqlite_fetch_all
    /\ pc' = "idle"
    /\ UNCHANGED <<USE_GSHEETS, padsYear, db, uploaded_files, idx, added, errors,
                   rowsBefore, text, date, total>>

Next ==
    \/ \E batch \in Batches : Upload(batch)
    \/ ReadFails
    \/ SkipUnresolved
    \/ SqliteInsertOk
    \/ SqliteExecuteFails
    \/ SqliteCommitFails
    \/ GsAppendOk
    \/ GsAppendFails
    \/ Report
    \/ Display

Spec == Init /\ [][Next]_vars

(***************************************************************************)
(* extract_date_and_total as a pure function of a bounded text.            *)
(***************************************************************************)
InitText(T) ==
    /\ USE_GSHEETS = FALSE
    /\ padsYear = FALSE
    /\ db = <<>>
    /\ uploaded_files = <<>>
    /\ idx = 1
    /\ added = 0
    /\ errors = <<>>
    /\ pc = "call"
    /\ listing = <<>>
    /\ rowsBefore = 0
    /\ text \in T
    /\ date = None
    /\ total = None

\* date, total = extract_date_and_total(text)
Resolve ==
    /\ pc = "call"
    /\ date' = extract_date_and_total(text)[1]
    /\ total' = extract_date_and_total(text)[2]
    /\ pc' = "returned"
    /\ UNCHANGED <<USE_GSHEETS, padsYear, db, uploaded_files, idx, added, errors,
                   listing, rowsBefore, text>>

InitDates == InitText(TextsOver(DateFrags))
InitAmounts == InitText(TextsOver(AmountFrags))

NextResolve == Resolve

SpecDates == InitDates /\ [][NextResolve]_vars
SpecAmounts == InitAmounts /\ [][NextResolve]_vars

(***************************************************************************)
(* Properties.                                                             *)
(***************************************************************************)
ValidDate(d) ==
    /\ d # None
    /\ d[1] >= 1 /\ d[1] <= 9999
    /\ d[2] >= 1 /\ d[2] <= 12
    /\ d[3] >= 1 /\ d[3] <= DaysInMonth(d[1], d[2])

\* The day/month/year written in the ten characters from position i.
WrittenDate(s, i) ==
    <<DigitsVal(s, i + 6, i + 9), DigitsVal(s, i + 3, i + 4), DigitsVal(s, i, i + 1)>>

\* A valid calendar date written DD/MM/YYYY stands at position i.
ValidSlashDateAt(s, i) ==
    /\ DateShapedAt(s, i)
    /\ s[i + 2] = "/"
    /\ s[i + 5] = "/"
    /\ ValidDate(WrittenDate(s, i))

FirstDateShaped(s, i) ==
    DateShapedAt(s, i) /\ \A j \in 1..(i - 1) : ~DateShapedAt(s, j)

\* C1: every persisted record, in the store and in the list-all output, has
\* a date and a total, the total is >= 0, and a document resolved with an
\* absent field ends the iteration as the last entry of the error list.
C1_PersistedRecordsComplete ==
    /\ \A k \in 1..Len(db) : db[k].date # None /\ db[k].total # None
    /\ \A k \in 1..Len(listing) :
          /\ ValidDate(listing[k].date)
          /\ listing[k].total # None
          /\ listing[k].total[1] >= 0
    /\ (pc \in {"loop", "report"} /\ idx > 1 /\ (date = None \/ total = None))
          => /\ errors # <<>>
             /\ errors[Len(errors)] = <<uploaded_files[idx - 1].name, date, total>>
             /\ Len(db) - rowsBefore <= idx - 2

C1_Witness ==
    /\ pc = "idle"
    /\ Len(listing) >= 1
    /\ \E k \in 1..Len(errors) : Len(errors[k]) = 3 /\ errors[k][3] = None
    /\ \E k \in 1..Len(errors) : Len(errors[k]) = 3 /\ errors[k][2] = None

\* C2 (as claimed): a run stops processing only after every document of the
\* batch was handled, and every unreadable document of the batch has an
\* entry in the error list.
C2_ReadErrorDoesNotAbort ==
    pc # "loop" =>
        /\ idx > Len(uploaded_files)
        /\ \A k \in 1..Len(uploaded_files) :
              ~uploaded_files[k].raw.readable =>
                  \E e \in 1..Len(errors) : errors[e][1] = uploaded_files[k].name

\* C3 (as claimed): every valid date written DD/MM/YYYY anywhere in the text
\* is the resolved date.
C3_AnyEmbeddedDate ==
    pc = "returned" =>
        \A i \in 1..Len(text) :
            ValidSlashDateAt(text, i) => date = WrittenDate(text, i)

\* C3 (amended): a valid date written DD/MM/YYYY is the resolved date when
\* no date-shaped substring begins before it in the text.
C3_FirstEmbeddedDate ==
    pc = "returned" =>
        \A i \in 1..Len(text) :
            (ValidSlashDateAt(text, i) /\ FirstDateShaped(text, i))
                => date = WrittenDate(text, i)

C3_Witness ==
    /\ pc = "returned"
    /\ \E i \in 2..Len(text) :
          /\ ValidSlashDateAt(text, i)
          /\ FirstDateShaped(text, i)
          /\ text[i - 1] \in Digit
          /\ i + 10 <= Len(text)
          /\ date = WrittenDate(text, i)

\* C10: the date comes from the first date-shaped substring alone: it is
\* that substring's date when that is a calendar date and absent otherwise,
\* also when a later date-shaped substring is valid; without any
\* date-shaped substring it is absent; the result is always a date or absent.
C10_FirstMatchOnly ==
    pc = "returned" =>
        /\ date = None \/ ValidDate(date)
        /\ (\A i \in 1..Len(text) : ~DateShapedAt(text, i)) => date = None
        /\ \A i \in 1..Len(text) :
              FirstDateShaped(text, i) =>
                  date = IF ValidDate(WrittenDate(text, i))
                         THEN WrittenDate(text, i) ELSE None

C10_Witness ==
    /\ pc = "returned"
    /\ date = None
    /\ \E i \in 1..Len(text) :
          /\ FirstDateShaped(text, i)
          /\ ~ValidDate(WrittenDate(text, i))
          /\ \E j \in (i + 1)..Len(text) :
                DateShapedAt(text, j) /\ ValidDate(WrittenDate(text, j))

\* Pattern k matches somewhere in s.
Matches(k, s) == PatternMatches(patterns[k], s) # {}

NoLabelMatches(s) == \A k \in 1..Len(patterns) : ~Matches(k, s)

\* The amount of the leftmost match of pattern k, as the code converts it.
LeftmostAmount(k, s) ==
    LET g == PatternAt(patterns[k], s, MinOf(PatternMatches(patterns[k], s)))
    IN  ParseAmount(SubSeq(s, g[1], g[2]))

\* C4: the first pattern of the list that matches anywhere decides the
\* total, by its leftmost match, whatever lower-priority labels or
\* unlabeled amounts the text holds and wherever they stand; the text
\* "Total a pagar 12,34 99,99" resolves to 12.34.
C4_FirstPatternInListOrder ==
    pc = "returned" =>
        /\ \A k \in 1..Len(patterns) :
              (Matches(k, text) /\ \A j \in 1..(k - 1) : ~Matches(j, text))
                  => total = <<LeftmostAmount(k, text)>>
        /\ text = T_TotalAPagar \o T_12_34 \o T_99_99 => total = <<1234>>

C4_Witness ==
    /\ pc = "returned"
    /\ text = T_TOTAL_5_00 \o T_TotalAPagar \o T_12_34
    /\ Matches(1, text)
    /\ Matches(3, text)
    /\ LeftmostAmount(3, text) # LeftmostAmount(1, text)
    /\ total = <<1234>>

\* Positions where a decimal-shaped substring begins.
AmountStarts(s) == {i \in 1..Len(s) : AmountEnd(s, i) # 0}

\* C5: when no labeled pattern matches, the total is absent if the text
\* has no decimal-shaped substring and otherwise the value of the last
\* match of the left-to-right scan, after which no decimal-shaped substring
\* begins; when a labeled pattern matches, the total is the amount of a
\* labeled match.
C5_FallbackLastAmount ==
    pc = "returned" =>
        /\ (NoLabelMatches(text) /\ AmountStarts(text) = {}) => total = None
        /\ (NoLabelMatches(text) /\ AmountStarts(text) # {}) =>
              /\ total = <<ParseAmount(FindAll(text)[Len(FindAll(text))])>>
              /\ \E i \in AmountStarts(text) :
                    /\ total = <<ParseAmount(SubSeq(text, i, AmountEnd(text, i)))>>
                    /\ \A j \in AmountStarts(text) : j <= AmountEnd(text, i)
        /\ ~NoLabelMatches(text) =>
              \E k \in 1..Len(patterns) : \E i \in PatternMatches(patterns[k], text) :
                  LET g == PatternAt(patterns[k], text, i)
                  IN  total = <<ParseAmount(SubSeq(text, g[1], g[2]))>>

C5_Witness ==
    /\ pc = "returned"
    /\ NoLabelMatches(text)
    /\ Len(FindAll(text)) = 3
    /\ ParseAmount(FindAll(text)[1]) # ParseAmount(FindAll(text)[3])
    /\ ParseAmount(FindAll(text)[2]) # ParseAmount(FindAll(text)[3])
    /\ total = <<ParseAmount(FindAll(text)[3])>>

\* C6 (as claimed): when the loop has ended, the added count plus the
\* number of error entries is the number of documents, the number of
\* records appended by the batch is the added count.
C6_OneOutcomePerDocument ==
    pc = "report" =>
        /\ added + Len(errors) = Len(uploaded_files)
        /\ Len(db) - rowsBefore = added

\* Calendar order of two dates <<y, m, d>>.
DateLeq(a, b) ==
    \/ a[1] < b[1]
    \/ a[1] = b[1] /\ a[2] < b[2]
    \/ a[1] = b[1] /\ a[2] = b[2] /\ a[3] <= b[3]

\* C8 (as claimed): the frame sqlite_fetch_all returns is in ascending
\* calendar-date order.
C8_ListingAscending ==
    (pc = "idle" /\ ~USE_GSHEETS) =>
        \A i \in 1..Len(listing) : \A j \in i..Len(listing) :
            DateLeq(listing[i].date, listing[j].date)

\* The run of digits, "." and "," that starts at position i.
RECURSIVE TokenEnd(_, _)
TokenEnd(s, i) ==
    IF i + 1 <= Len(s) /\ s[i + 1] \in Digit \cup {".", ","}
    THEN TokenEnd(s, i + 1) ELSE i

\* An amount in the European convention: digits and grouping ".", then ","
\* and exactly two digits.
EuropeanAmount(t) ==
    /\ Len(t) >= 4
    /\ t[1] \in Digit
    /\ t[Len(t) - 2] = ","
    /\ \A k \in 1..Len(t) : k # Len(t) - 2 => t[k] \in Digit \cup {"."}
    /\ t[Len(t)] \in Digit /\ t[Len(t) - 1] \in Digit

\* Its value in cents: every "." removed, "," the decimal point.
EuropeanCents(t) ==
    LET u == Replace(t, ".", <<>>)
    IN  100 * DigitsVal(u, 1, Len(u) - 3) + DigitsVal(u, Len(u) - 1, Len(u))

\* C9 (as claimed): when a labeled pattern decides the total and the amount
\* written after the label is a European amount, the total is that amount
\* with every "." removed and "," as the decimal point.
C9_EuropeanAmountInFull ==
    pc = "returned" =>
        \A k \in 1..Len(patterns) :
            (Matches(k, text) /\ \A j \in 1..(k - 1) : ~Matches(j, text)) =>
                LET g == PatternAt(patterns[k], text,
                                   MinOf(PatternMatches(patterns[k], text)))
                    t == SubSeq(text, g[1], TokenEnd(text, g[1]))
                IN  EuropeanAmount(t) => total = <<EuropeanCents(t)>>
====
